---- MODULE Spec2Model ----
(***************************************************************************)
(* A/B testing platform: the Experiment controller and the Reset utility   *)
(* of src/ab_test.py working on a MongoDB record store, as driven by       *)
(* src/business.py (StatsBuilder) and src/database.py (MongoRepository).   *)
(*                                                                         *)
(* Days are integers (a createdAt timestamp is modelled by its calendar    *)
(* day).  A document field that MongoDB would leave out is modelled by     *)
(* inExperiment = FALSE and group = Unset.                                 *)
(***************************************************************************)
EXTENDS Integers, Sequences, FiniteSets, TLC

\* ------------------------------------------------------------- bounds
\* largest `days` argument of run_experiment that is explored
MaxDays == 2
\* number of documents of the applicants collection
NumApplicants == 2

\* ------------------------------------------------------------- constants
Control == "No email (control)"
Treatment == "email (treatment)"
Unset == "unset"
Groups == {Control, Treatment}

\* datetime.now() truncated to midnight; day numbers start at 0
Today == MaxDays + 1
Dates == 0..(Today + 1)
\* days on which documents were created: the last three days
CreatedDays == (Today - 2)..Today
DaysArgs == (-1)..MaxDays
Seeds == {42, 7}
NObsArgs == {2, 4}
CdfDaysArgs == 1..MaxDays
RngStates == 0..3

VARIABLES
    db,     \* client[db_name][collection_name][_id] = document
    rng,    \* state of the process-global generator of module random
    pc,     \* position of the operation in progress
    op,     \* locals of the operation in progress
    prev,   \* the Experiment whose reset_experiment() was the last completed call
    fixture \* a completed run and the store it started from, kept to run it again

vars == <<db, rng, pc, op, prev, fixture>>

\* ------------------------------------------------------------- pymongo
EmptyDict == <<>>

\* client[db][collection]: a collection never written to holds no document
GetCollection(store, c) ==
    IF c.database \in DOMAIN store /\ c.name \in DOMAIN store[c.database]
    THEN store[c.database][c.name]
    ELSE EmptyDict

\* db.list_collection_names()
list_collection_names(store, db_name) ==
    IF db_name \in DOMAIN store THEN DOMAIN store[db_name] ELSE {}

\* a query document against one stored document
Matches(doc, query) ==
    /\ "createdAt" \in DOMAIN query =>
          /\ doc.createdAt >= query.createdAt.gte
          /\ doc.createdAt < query.createdAt.lt
    /\ "admissionsQuiz" \in DOMAIN query => doc.admissionsQuiz = query.admissionsQuiz
    /\ "inExperiment" \in DOMAIN query => doc.inExperiment = query.inExperiment
    /\ "group" \in DOMAIN query => doc.group = query.group

MatchingIds(coll, query) == {i \in DOMAIN coll : Matches(coll[i], query)}

RECURSIVE SortedSeq(_)
SortedSeq(S) ==
    IF S = {} THEN <<>>
    ELSE LET m == CHOOSE x \in S : \A y \in S : x <= y
         IN <<m>> \o SortedSeq(S \ {m})

\* collection.find(query): the matching documents, with their _id, in natural order
find(coll, query) ==
    LET ids == SortedSeq(MatchingIds(coll, query))
    IN [k \in 1..Len(ids) |->
          [_id |-> ids[k],
           createdAt |-> coll[ids[k]].createdAt,
           admissionsQuiz |-> coll[ids[k]].admissionsQuiz,
           inExperiment |-> coll[ids[k]].inExperiment,
           group |-> coll[ids[k]].group]]

\* collection.count_documents(query)
count_documents(coll, query) == Cardinality(MatchingIds(coll, query))

\* collection.update_one({"_id": id}, {"$set": {"inExperiment": e, "group": g}})
update_one(coll, id, e, g) ==
    IF id \notin DOMAIN coll
    THEN [coll |-> coll, matched_count |-> 0, modified_count |-> 0]
    ELSE LET new == [coll[id] EXCEPT !.inExperiment = e, !.group = g]
         IN [coll |-> [coll EXCEPT ![id] = new],
             matched_count |-> 1,
             modified_count |-> IF new = coll[id] THEN 0 ELSE 1]

\* as UnsetFields, with "group" left out of the $unset document
UnsetFields_keeps_group(doc) == [doc EXCEPT !.inExperiment = FALSE]

\* {"$unset": {"inExperiment": "", "group": ""}} applied to one document
UnsetFields(doc) == [doc EXCEPT !.inExperiment = FALSE, !.group = Unset]

\* the $unset update applied to the documents `ids` of a collection
unset_documents(coll, ids) ==
    [i \in DOMAIN coll |-> IF i \in ids THEN UnsetFields(coll[i]) ELSE coll[i]]

\* as update_many, with the empty filter {} in place of {"inExperiment": True}
update_many_any_document(coll) ==
    LET matched == DOMAIN coll
        new == unset_documents(coll, matched)
    IN [coll |-> new,
        matched_count |-> Cardinality(matched),
        modified_count |-> Cardinality({i \in DOMAIN coll : new[i] # coll[i]})]

\* as update_many, with delete_many in place of update_many
update_many_deletes(coll) ==
    LET matched == MatchingIds(coll, [inExperiment |-> TRUE])
    IN [coll |-> [i \in DOMAIN coll \ matched |-> coll[i]],
        matched_count |-> Cardinality(matched),
        modified_count |-> Cardinality(matched)]

\* collection.update_many({"inExperiment": True}, {"$unset": {"inExperiment": "", "group": ""}})
update_many(coll) ==
    LET matched == MatchingIds(coll, [inExperiment |-> TRUE])
        new == unset_documents(coll, matched)
    IN [coll |-> new,
        matched_count |-> Cardinality(matched),
        modified_count |-> Cardinality({i \in DOMAIN coll : new[i] # coll[i]})]

\* the store with one collection replaced
PutCollection(store, c, coll) ==
    [store EXCEPT ![c.database] = [@ EXCEPT ![c.name] = coll]]

\* ------------------------------------------------------------- random
\* random.seed(seed)
seed_rng(seed) == seed % 4

\* one draw below n: the generator steps, the draw is taken from the new state
randbelow(s, n) ==
    LET next == (5 * s + 3) % 4
    IN [value |-> next % n, rng |-> next]

RECURSIVE shuffle_from(_, _, _)
shuffle_from(x, i, s) ==
    IF i < 1 THEN [x |-> x, rng |-> s]
    ELSE LET r == randbelow(s, i + 1)
             j == r.value
             y == [x EXCEPT ![i + 1] = x[j + 1], ![j + 1] = x[i + 1]]
         IN shuffle_from(y, i - 1, r.rng)

\* random.shuffle(x): for i in reversed(range(1, len(x))): j = randbelow(i + 1); swap
shuffle(x, s) == shuffle_from(x, Len(x) - 1, s)

\* ------------------------------------------------------------- dates
\* current_date.strftime("%Y-%m-%d")
strftime(d) == "day-" \o ToString(d)

\* datetime.strptime(date_string, "%Y-%m-%d")
strptime(date_string) == CHOOSE d \in Dates : strftime(d) = date_string

\* the dates _assign_groups_for_date and _count_users_for_date are called with
DateStrings == {strftime(d) : d \in (Today - MaxDays)..Today}

\* ------------------------------------------------------------- Experiment
MongoClient == [kind |-> "MongoClient"]

\* MongoRepository.__init__: self.collection = client[db][collection]
MongoRepository(client, db_name, collection_name) ==
    [kind |-> "MongoRepository",
     collection |-> [database |-> db_name, name |-> collection_name]]

\* Experiment.__init__
Experiment(repo, db_name, collection_name) ==
    [db_name |-> db_name,
     collection_name |-> collection_name,
     collection |-> IF repo.kind = "MongoClient"
                    THEN [database |-> db_name, name |-> collection_name]
                    ELSE repo.collection]

\* MongoRepository() with its defaults, the repo of StatsBuilder and GraphBuilder
DefaultRepository == MongoRepository(MongoClient, "online_course", "applicants")

NoExp == [db_name |-> "", collection_name |-> "",
          collection |-> [database |-> "", name |-> ""]]

\* Experiment() with its defaults, and the one StatsBuilder.run_experiment builds
\* from the default MongoRepository()
DefaultExperiment == Experiment(MongoClient, "online_course", "applicants")
StatsBuilderExperiment ==
    Experiment(DefaultRepository, "wqu-abtest", "ds-applicants")
Experiments == {DefaultExperiment, StatsBuilderExperiment}

\* as DayQuery, asking for the documents whose quiz is complete
DayQuery_complete(date_string) ==
    LET start_date == strptime(date_string)
        end_date == start_date + 1
    IN [createdAt |-> [gte |-> start_date, lt |-> end_date],
        admissionsQuiz |-> "complete"]

\* as DayQuery, with the end of the range one day later
DayQuery_two_days(date_string) ==
    LET start_date == strptime(date_string)
        end_date == start_date + 2
    IN [createdAt |-> [gte |-> start_date, lt |-> end_date],
        admissionsQuiz |-> "incomplete"]

\* as DayQuery, without the condition on admissionsQuiz
DayQuery_any_status(date_string) ==
    LET start_date == strptime(date_string)
        end_date == start_date + 1
    IN [createdAt |-> [gte |-> start_date, lt |-> end_date]]

\* the query of _assign_groups_for_date and _count_users_for_date
DayQuery(date_string) ==
    LET start_date == strptime(date_string)
        end_date == start_date + 1
    IN [createdAt |-> [gte |-> start_date, lt |-> end_date],
        admissionsQuiz |-> "incomplete"]

\* users with the experiment fields of one group set
Label(users, g) ==
    [k \in 1..Len(users) |-> [users[k] EXCEPT !.inExperiment = TRUE, !.group = g]]

\* as AssignPrepare, with the midpoint rounded up
AssignPrepare_midpoint_up(coll, date_string, s) ==
    LET sh == shuffle(find(coll, DayQuery(date_string)), s)
        users == sh.x
        midpoint == (Len(users) + 1) \div 2
        control_group == Label(SubSeq(users, 1, midpoint), Control)
        treatment_group == Label(SubSeq(users, midpoint + 1, Len(users)), Treatment)
    IN [all_users |-> control_group \o treatment_group,
        control_size |-> Len(control_group),
        treatment_size |-> Len(treatment_group),
        rng |-> sh.rng]

\* _assign_groups_for_date up to the update loop: find, shuffle, split, label
AssignPrepare(coll, date_string, s) ==
    LET sh == shuffle(find(coll, DayQuery(date_string)), s)
        users == sh.x
        midpoint == Len(users) \div 2
        control_group == Label(SubSeq(users, 1, midpoint), Control)
        treatment_group == Label(SubSeq(users, midpoint + 1, Len(users)), Treatment)
    IN [all_users |-> control_group \o treatment_group,
        control_size |-> Len(control_group),
        treatment_size |-> Len(treatment_group),
        rng |-> sh.rng]

\* as count_users_for_date, with "admissionsQuiz" left out of the query
count_users_for_date_any_status(coll, date_string) ==
    [count |-> count_documents(coll, [createdAt |-> DayQuery(date_string).createdAt])]

\* _count_users_for_date
count_users_for_date(coll, date_string) ==
    [count |-> count_documents(coll, DayQuery(date_string))]

\* as Rate, dividing whatever the total is; <<0, 0>> is the division by zero
Rate_unguarded(completed, total) == <<completed, total>>

\* _calculate_experiment_stats; a rate is the pair <<numerator, denominator>>
Rate(completed, total) == IF total > 0 THEN <<completed, total>> ELSE <<0, 1>>

\* as calculate_experiment_stats, with the completed counts taken over every
\* document in the experiment, whatever its group
calculate_experiment_stats_any_group(coll) ==
    LET control_count == count_documents(coll, [inExperiment |-> TRUE, group |-> Control])
        treatment_count == count_documents(coll, [inExperiment |-> TRUE, group |-> Treatment])
        control_completed == count_documents(coll,
            [inExperiment |-> TRUE, admissionsQuiz |-> "complete"])
        treatment_completed == count_documents(coll,
            [inExperiment |-> TRUE, admissionsQuiz |-> "complete"])
        control_rate == Rate(control_completed, control_count)
        treatment_rate == Rate(treatment_completed, treatment_count)
    IN [control_group |-> [total |-> control_count, completed |-> control_completed,
                           completion_rate |-> control_rate],
        treatment_group |-> [total |-> treatment_count, completed |-> treatment_completed,
                             completion_rate |-> treatment_rate],
        difference |-> <<treatment_rate[1] * control_rate[2] - control_rate[1] * treatment_rate[2],
                         treatment_rate[2] * control_rate[2]>>]

calculate_experiment_stats(coll) ==
    LET control_count == count_documents(coll, [inExperiment |-> TRUE, group |-> Control])
        treatment_count == count_documents(coll, [inExperiment |-> TRUE, group |-> Treatment])
        control_completed == count_documents(coll,
            [inExperiment |-> TRUE, group |-> Control, admissionsQuiz |-> "complete"])
        treatment_completed == count_documents(coll,
            [inExperiment |-> TRUE, group |-> Treatment, admissionsQuiz |-> "complete"])
        control_rate == Rate(control_completed, control_count)
        treatment_rate == Rate(treatment_completed, treatment_count)
    IN [control_group |-> [total |-> control_count, completed |-> control_completed,
                           completion_rate |-> control_rate],
        treatment_group |-> [total |-> treatment_count, completed |-> treatment_completed,
                             completion_rate |-> treatment_rate],
        difference |-> <<treatment_rate[1] * control_rate[2] - control_rate[1] * treatment_rate[2],
                         treatment_rate[2] * control_rate[2]>>]

\* a Python dict as the sequence of its <<key, value>> items in insertion order
DictKeys(d) == [k \in 1..Len(d) |-> d[k][1]]
DictSet(d, key, value) ==
    IF \E k \in 1..Len(d) : d[k][1] = key
    THEN [k \in 1..Len(d) |-> IF d[k][1] = key THEN <<key, value>> ELSE d[k]]
    ELSE Append(d, <<key, value>>)

\* day.get('n', 0)
GetN(day) == IF "n" \in DOMAIN day THEN day.n ELSE 0

RECURSIVE SumN(_)
SumN(d) == IF d = <<>> THEN 0 ELSE GetN(Head(d)[2]) + SumN(Tail(d))

\* as GetResult, with result.get(self.collection_name): no default
GetResult_without_default(results, collection_name) ==
    IF collection_name \in DOMAIN results
    THEN results[collection_name]
    ELSE EmptyDict

\* result.get(self.collection_name, {"matched": 0, "modified": 0})
GetResult(results, collection_name) ==
    IF collection_name \in DOMAIN results
    THEN results[collection_name]
    ELSE [matched |-> 0, modified |-> 0]

\* ------------------------------------------------------------- MongoRepository
\* pd.DataFrame(result).dropna() for result = find({"inExperiment": True}): the rows,
\* with the two columns the table is built from
Frame(coll) ==
    LET result == find(coll, [inExperiment |-> TRUE])
    IN [k \in 1..Len(result) |->
          [group |-> result[k].group, admissionsQuiz |-> result[k].admissionsQuiz]]

\* Series.unique(): the values in the order they first appear
RECURSIVE Unique(_)
Unique(values) ==
    IF values = <<>> THEN <<>>
    ELSE LET rest == Unique(SubSeq(values, 1, Len(values) - 1))
             last == values[Len(values)]
         IN IF \E k \in 1..Len(rest) : rest[k] = last THEN rest ELSE Append(rest, last)

\* df[df['group'] == group_type].iloc[0]
FirstOfGroup(df, group_type) ==
    df[CHOOSE k \in 1..Len(df) :
          /\ df[k].group = group_type
          /\ \A j \in 1..(k - 1) : df[j].group # group_type]

\* the while loop: copies of df.iloc[0] until there are three synthetic rows
RECURSIVE PadRows(_, _)
PadRows(new_rows, df) ==
    IF Len(new_rows) < 3
    THEN PadRows(Append(new_rows, [df[1] EXCEPT !.admissionsQuiz = "completed"]), df)
    ELSE new_rows

\* lines 206-223: the synthetic 'completed' rows appended to the frame
WithSyntheticRows(df) ==
    IF \A k \in 1..Len(df) : df[k].admissionsQuiz # "completed"
    THEN LET group_types == Unique([k \in 1..Len(df) |-> df[k].group])
             new_rows == [k \in 1..Len(group_types) |->
                            [FirstOfGroup(df, group_types[k])
                                EXCEPT !.admissionsQuiz = "completed"]]
         IN df \o PadRows(new_rows, df)
    ELSE df

\* pd.crosstab(index=df["group"], columns=df["admissionsQuiz"]): the labels that
\* occur, and the count of rows for each pair of them
crosstab(df) ==
    LET index == {df[k].group : k \in 1..Len(df)}
        columns == {df[k].admissionsQuiz : k \in 1..Len(df)}
    IN [index |-> index,
        columns |-> columns,
        values |-> [cell \in index \X columns |->
                      Cardinality({k \in 1..Len(df) :
                          df[k].group = cell[1] /\ df[k].admissionsQuiz = cell[2]})]]

\* get_contingency_table on a frame with at least one row
get_contingency_table(coll) == crosstab(WithSyntheticRows(Frame(coll)))

\* get_no_quiz_per_day up to squeeze(): the days on which a document with an
\* incomplete quiz was created, each with the number of such documents
get_no_quiz_per_day(coll) ==
    LET incomplete == MatchingIds(coll, [admissionsQuiz |-> "incomplete"])
        dates == {coll[i].createdAt : i \in incomplete}
    IN [date \in dates |-> Cardinality({i \in incomplete : coll[i].createdAt = date})]

\* ------------------------------------------------------------- StatsBuilder
\* the sum of the values of a series
RECURSIVE SumSeries(_)
SumSeries(series) ==
    IF DOMAIN series = {} THEN 0
    ELSE LET date == CHOOSE d \in DOMAIN series : TRUE
         IN series[date] + SumSeries([d \in DOMAIN series \ {date} |-> series[d]])

\* calculate_cdf_pct. A frame without rows has no column "date" and set_index
\* raises KeyError; a frame of one row squeezes to a scalar, which has no
\* describe(). With count days of history, mean = total / count and
\* std^2 = (count * squares - total^2) / (count * (count - 1)); norm.cdf returns
\* nan when scale is 0. Otherwise pct = 100 * (1 - Phi(z)) with
\* z = (z_numerator / count) / sqrt(scale_squared), kept by these two terms.
calculate_cdf_pct(coll, n_obs, days) ==
    LET no_quiz == get_no_quiz_per_day(coll)
        count == Cardinality(DOMAIN no_quiz)
        total == SumSeries(no_quiz)
        squares == SumSeries([d \in DOMAIN no_quiz |-> no_quiz[d] * no_quiz[d]])
        variance == <<count * squares - total * total, count * (count - 1)>>
        scale_squared == <<days * variance[1], variance[2]>>
    IN IF count = 0 THEN [status |-> "failed", error |-> "KeyError", pct |-> EmptyDict]
       ELSE IF count = 1
       THEN [status |-> "failed", error |-> "AttributeError", pct |-> EmptyDict]
       ELSE IF scale_squared[1] = 0
       THEN [status |-> "ok", error |-> "none", pct |-> [nan |-> TRUE]]
       ELSE [status |-> "ok", error |-> "none",
             pct |-> [nan |-> FALSE,
                      z_numerator |-> count * n_obs - total * days,
                      scale_squared |-> scale_squared]]

\* Table2x2(data.values) accepts an array of two rows and two columns only
IsTwoByTwo(data) == Cardinality(data.index) = 2 /\ Cardinality(data.columns) = 2

\* Table2x2(data.values).test_nominal_association() on a 2x2 table: a table with a
\* zero cell is shifted by 0.5 (the cells are kept doubled here); the statistic is
\* Pearson's N (ad - bc)^2 / (r1 r2 c1 c2) as <<numerator, denominator>>, df is
\* (rows - 1)(columns - 1); pvalue is a function of the two and is left out
test_nominal_association(data) ==
    LET g1 == CHOOSE g \in data.index : TRUE
        g2 == CHOOSE g \in data.index : g # g1
        c1 == CHOOSE c \in data.columns : TRUE
        c2 == CHOOSE c \in data.columns : c # c1
        shift_zeros == \E cell \in DOMAIN data.values : data.values[cell] = 0
        Cell(g, c) == IF shift_zeros THEN 2 * data.values[<<g, c>>] + 1
                                     ELSE 2 * data.values[<<g, c>>]
        a == Cell(g1, c1)
        b == Cell(g1, c2)
        c == Cell(g2, c1)
        d == Cell(g2, c2)
        n == a + b + c + d
    IN [statistic |-> <<n * (a * d - b * c) * (a * d - b * c),
                        2 * (a + b) * (c + d) * (a + c) * (b + d)>>,
        df |-> 1]

\* ------------------------------------------------------------- state
NoOp ==
    [kind |-> "none", exp |-> NoExp, pre |-> EmptyDict, again |-> FALSE,
     client |-> MongoClient, db_name |-> "", caller |-> "",
     days |-> 0, n_obs |-> 0, assignment |-> FALSE, processed |-> <<>>,
     current_date |-> 0, end_date |-> 0, daily_results |-> <<>>,
     date_string |-> "", all_users |-> <<>>, users |-> <<>>,
     matched_count |-> 0, modified_count |-> 0,
     control_size |-> 0, treatment_size |-> 0,
     remaining |-> {}, results |-> EmptyDict,
     status |-> "none", error |-> "none", ret |-> EmptyDict]

NoFixture ==
    [phase |-> "none", pre |-> EmptyDict, post |-> EmptyDict, exp |-> NoExp,
     days |-> 0, seed |-> 0]

ApplicantIds == 1..NumApplicants

\* the documents of a collection: ids follow creation order, and only a document
\* whose quiz is complete may carry the fields of an earlier experiment
ApplicantDocs ==
    {docs \in [ApplicantIds -> [createdAt : CreatedDays,
                                admissionsQuiz : {"incomplete", "complete"},
                                inExperiment : BOOLEAN,
                                group : Groups \cup {Unset}]] :
        /\ \A i, j \in ApplicantIds : i <= j => docs[i].createdAt <= docs[j].createdAt
        /\ \A i \in ApplicantIds :
              /\ docs[i].inExperiment <=> docs[i].group \in Groups
              /\ docs[i].inExperiment => docs[i].admissionsQuiz = "complete"}

AlumniDocs ==
    {[i \in {1} |-> [createdAt |-> Today - 1, admissionsQuiz |-> "incomplete",
                     inExperiment |-> e, group |-> IF e THEN Treatment ELSE Unset]] :
        e \in BOOLEAN}

Init ==
    /\ \E a \in ApplicantDocs, b \in AlumniDocs :
          db = ("online_course" :> ("applicants" :> a @@ "alumni" :> b))
               @@ ("wqu-abtest" :> EmptyDict)
    /\ rng \in RngStates
    /\ pc = "idle"
    /\ op = NoOp
    /\ prev = NoExp
    /\ fixture = NoFixture

\* ------------------------------------------------------------- run_experiment
\* as BeginRun, without the call of random.seed
BeginRun_unseeded(exp, days, assignment, seed) ==
    /\ pc = "idle"
    /\ op' = [NoOp EXCEPT !.kind = "run", !.exp = exp, !.pre = db,
                          !.days = days, !.assignment = assignment,
                          !.end_date = Today, !.current_date = Today - days,
                          !.status = "running"]
    /\ pc' = "run_loop"
    /\ prev' = NoExp
    /\ UNCHANGED <<db, rng>>

\* run_experiment, lines 124-136: seed, date range, empty daily_results
BeginRun(exp, days, assignment, seed) ==
    /\ pc = "idle"
    /\ rng' = IF assignment THEN seed_rng(seed) ELSE rng
    /\ op' = [NoOp EXCEPT !.kind = "run", !.exp = exp, !.pre = db,
                          !.days = days, !.assignment = assignment,
                          !.end_date = Today, !.current_date = Today - days,
                          !.status = "running"]
    /\ pc' = "run_loop"
    /\ prev' = NoExp
    /\ UNCHANGED db

\* as LoopContinues, with <= in place of <
LoopContinues_inclusive(current_date, end_date) == current_date <= end_date

\* the loop condition of run_experiment
LoopContinues(current_date, end_date) == current_date < end_date

\* one iteration with assignment: _assign_groups_for_date up to its update loop
RunAssignDay ==
    /\ pc = "run_loop"
    /\ LoopContinues(op.current_date, op.end_date)
    /\ op.assignment
    /\ LET date_str == strftime(op.current_date)
           a == AssignPrepare(GetCollection(db, op.exp.collection), date_str, rng)
       IN /\ op' = [op EXCEPT !.date_string = date_str,
                              !.all_users = a.all_users, !.users = a.all_users,
                              !.processed = Append(@, date_str),
                              !.control_size = a.control_size,
                              !.treatment_size = a.treatment_size,
                              !.matched_count = 0, !.modified_count = 0]
          /\ rng' = a.rng
    /\ pc' = "assign_update"
    /\ UNCHANGED <<db, prev>>

\* one iteration without assignment: _count_users_for_date
RunCountDay ==
    /\ pc = "run_loop"
    /\ LoopContinues(op.current_date, op.end_date)
    /\ ~op.assignment
    /\ LET date_str == strftime(op.current_date)
           result == count_users_for_date(GetCollection(db, op.exp.collection), date_str)
       IN op' = [op EXCEPT !.daily_results = DictSet(@, date_str, result),
                           !.processed = Append(@, date_str),
                           !.current_date = @ + 1]
    /\ UNCHANGED <<db, rng, pc, prev>>

\* the loop ends
RunLoopExit ==
    /\ pc = "run_loop"
    /\ ~LoopContinues(op.current_date, op.end_date)
    /\ pc' = "run_stats"
    /\ UNCHANGED <<db, rng, op, prev>>

\* run_experiment, lines 154-165: totals, statistics, the returned dict;
\* _calculate_experiment_stats called on its own returns the statistics
RunStats ==
    /\ pc = "run_stats"
    /\ LET stats == calculate_experiment_stats(GetCollection(db, op.exp.collection))
       IN op' = [op EXCEPT !.status = "ok",
                           !.ret = IF op.kind = "run"
                                   THEN [days |-> op.days,
                                         total_assigned |-> SumN(op.daily_results),
                                         daily_results |-> op.daily_results,
                                         statistics |-> stats]
                                   ELSE stats]
    /\ pc' = "done"
    /\ UNCHANGED <<db, rng, prev>>

\* _calculate_experiment_stats called on its own, up to its first count_documents;
\* again: the call follows a reset_experiment() of the same Experiment
BeginStats(exp) ==
    /\ pc = "idle"
    /\ op' = [NoOp EXCEPT !.kind = "stats", !.exp = exp, !.pre = db,
                          !.again = (prev = exp), !.status = "running"]
    /\ pc' = "run_stats"
    /\ prev' = NoExp
    /\ UNCHANGED <<db, rng>>

\* ------------------------------------------------------------- assign_for_day
\* _assign_groups_for_date called on its own
AssignForDay(exp, date_string) ==
    /\ pc = "idle"
    /\ LET a == AssignPrepare(GetCollection(db, exp.collection), date_string, rng)
       IN /\ op' = [NoOp EXCEPT !.kind = "assign_for_day", !.exp = exp, !.pre = db,
                                !.date_string = date_string,
                                !.all_users = a.all_users, !.users = a.all_users,
                                !.control_size = a.control_size,
                                !.treatment_size = a.treatment_size,
                                !.status = "running"]
          /\ rng' = a.rng
    /\ pc' = "assign_update"
    /\ prev' = NoExp
    /\ UNCHANGED db

\* one pass of the update loop of _assign_groups_for_date
AssignUpdate ==
    /\ pc = "assign_update"
    /\ op.users # <<>>
    /\ LET user == Head(op.users)
           result == update_one(GetCollection(db, op.exp.collection),
                                user._id, user.inExperiment, user.group)
       IN /\ db' = PutCollection(db, op.exp.collection, result.coll)
          /\ op' = [op EXCEPT !.users = Tail(@),
                              !.matched_count = @ + result.matched_count,
                              !.modified_count = @ + result.modified_count]
    /\ UNCHANGED <<rng, pc, prev>>

\* the dict _assign_groups_for_date returns
AssignResult(o) ==
    [n |-> o.matched_count, n_modified |-> o.modified_count,
     control_size |-> o.control_size, treatment_size |-> o.treatment_size]

\* _assign_groups_for_date returns, to run_experiment or to its caller
AssignReturn ==
    /\ pc = "assign_update"
    /\ op.users = <<>>
    /\ IF op.kind = "run"
       THEN /\ op' = [op EXCEPT !.daily_results = DictSet(@, op.date_string, AssignResult(op)),
                                !.current_date = @ + 1]
            /\ pc' = "run_loop"
       ELSE /\ op' = [op EXCEPT !.status = "ok", !.ret = AssignResult(op)]
            /\ pc' = "done"
    /\ UNCHANGED <<db, rng, prev>>

\* _count_users_for_date called on its own
CountForDay(exp, date_string) ==
    /\ pc = "idle"
    /\ op' = [NoOp EXCEPT !.kind = "count_for_day", !.exp = exp, !.pre = db,
                          !.date_string = date_string, !.status = "ok",
                          !.ret = count_users_for_date(
                              GetCollection(db, exp.collection), date_string)]
    /\ pc' = "done"
    /\ prev' = NoExp
    /\ UNCHANGED <<db, rng>>

\* ------------------------------------------------------------- reset_experiment
\* reset_experiment: Reset(self.client).reset_database(self.db_name), up to its loop
BeginReset(exp) ==
    /\ pc = "idle"
    /\ op' = [NoOp EXCEPT !.kind = "reset", !.exp = exp, !.pre = db,
                          !.again = (prev = exp), !.db_name = exp.db_name,
                          !.remaining = list_collection_names(db, exp.db_name),
                          !.status = "running"]
    /\ pc' = "reset_loop"
    /\ prev' = NoExp
    /\ UNCHANGED <<db, rng>>

\* the collections of every database of the store, as pymongo Collection objects
AllCollections(store) ==
    UNION {{[database |-> d, name |-> n] : n \in DOMAIN store[d]} : d \in DOMAIN store}

\* isinstance(self.client, Collection)
IsCollection(client) == "name" \in DOMAIN client

\* as BeginResetAll, without the branch for a Collection: the database of the
\* collection is reset
BeginResetAll_whole_database(client, db_name) ==
    /\ pc = "idle"
    /\ LET name == IF IsCollection(client) THEN client.database ELSE db_name
       IN op' = [NoOp EXCEPT !.kind = "reset_all", !.pre = db, !.client = client,
                             !.db_name = name,
                             !.remaining = list_collection_names(db, name),
                             !.status = "running"]
    /\ pc' = "reset_loop"
    /\ prev' = NoExp
    /\ UNCHANGED <<db, rng>>

\* Reset(client).reset_database(db_name) up to its first update_many: a Collection
\* is the only collection addressed, a client addresses those of the database
BeginResetAll(client, db_name) ==
    /\ pc = "idle"
    /\ op' = IF IsCollection(client)
             THEN [NoOp EXCEPT !.kind = "reset_all", !.pre = db, !.client = client,
                               !.db_name = client.database,
                               !.remaining = {client.name},
                               !.status = "running"]
             ELSE [NoOp EXCEPT !.kind = "reset_all", !.pre = db, !.client = client,
                               !.db_name = db_name,
                               !.remaining = list_collection_names(db, db_name),
                               !.status = "running"]
    /\ pc' = "reset_loop"
    /\ prev' = NoExp
    /\ UNCHANGED <<db, rng>>

\* one pass of the loop of reset_database: update_many on one collection
ResetCollection ==
    /\ pc = "reset_loop"
    /\ \E name \in op.remaining :
          LET c == [database |-> op.db_name, name |-> name]
              coll == GetCollection(db, c)
              update_result == update_many(coll)
          IN /\ db' = PutCollection(db, c, update_result.coll)
             /\ op' = [op EXCEPT !.remaining = @ \ {name},
                                 !.results = (name :> [matched |-> update_result.matched_count,
                                                       modified |-> update_result.modified_count])
                                             @@ @]
    /\ UNCHANGED <<rng, pc, prev>>

\* reset_database returns its results; reset_experiment picks its collection's entry
ResetReturn ==
    /\ pc = "reset_loop"
    /\ op.remaining = {}
    /\ op.caller = ""
    /\ op' = [op EXCEPT !.status = "ok",
                        !.ret = IF op.kind = "reset"
                                THEN GetResult(op.results, op.exp.collection_name)
                                ELSE op.results]
    /\ pc' = "done"
    /\ UNCHANGED <<db, rng, prev>>

\* ------------------------------------------------------------- StatsBuilder.run_experiment
\* StatsBuilder.run_experiment(days): Experiment(repo=self.repo, db="wqu-abtest",
\* collection="ds-applicants"), then exp.reset_experiment() up to its loop
StatsBuilderRunExperiment(days) ==
    /\ pc = "idle"
    /\ op' = [NoOp EXCEPT !.kind = "reset", !.exp = StatsBuilderExperiment, !.pre = db,
                          !.caller = "StatsBuilder.run_experiment", !.days = days,
                          !.db_name = StatsBuilderExperiment.db_name,
                          !.remaining = list_collection_names(
                                            db, StatsBuilderExperiment.db_name),
                          !.status = "running"]
    /\ pc' = "reset_loop"
    /\ prev' = NoExp
    /\ UNCHANGED <<db, rng>>

\* reset_experiment has returned to StatsBuilder.run_experiment, which calls
\* exp.run_experiment(days=days): assignment and seed take their defaults
StatsBuilderRunAfterReset ==
    /\ pc = "reset_loop"
    /\ op.remaining = {}
    /\ op.caller = "StatsBuilder.run_experiment"
    /\ rng' = seed_rng(42)
    /\ op' = [NoOp EXCEPT !.kind = "run", !.exp = op.exp, !.pre = db,
                          !.caller = op.caller,
                          !.days = op.days, !.assignment = TRUE,
                          !.end_date = Today, !.current_date = Today - op.days,
                          !.status = "running"]
    /\ pc' = "run_loop"
    /\ UNCHANGED <<db, prev>>

\* ------------------------------------------------------------- contingency table
\* repo.get_contingency_table(); df['admissionsQuiz'] of a frame without rows has
\* no such column and raises KeyError
GetContingencyTable ==
    /\ pc = "idle"
    /\ LET coll == GetCollection(db, DefaultRepository.collection)
       IN op' = IF Frame(coll) = <<>>
                THEN [NoOp EXCEPT !.kind = "contingency_table", !.pre = db,
                                  !.status = "failed", !.error = "KeyError"]
                ELSE [NoOp EXCEPT !.kind = "contingency_table", !.pre = db,
                                  !.status = "ok", !.ret = get_contingency_table(coll)]
    /\ pc' = "done"
    /\ prev' = NoExp
    /\ UNCHANGED <<db, rng>>

\* StatsBuilder.run_chi_square(): KeyError from get_contingency_table on a frame
\* without rows, ValueError from Table2x2 on a table that is not 2x2
RunChiSquare ==
    /\ pc = "idle"
    /\ LET coll == GetCollection(db, DefaultRepository.collection)
           o == [NoOp EXCEPT !.kind = "chi_square", !.pre = db]
       IN op' = IF Frame(coll) = <<>>
                THEN [o EXCEPT !.status = "failed", !.error = "KeyError"]
                ELSE IF ~IsTwoByTwo(get_contingency_table(coll))
                THEN [o EXCEPT !.status = "failed", !.error = "ValueError"]
                ELSE [o EXCEPT !.status = "ok",
                               !.ret = test_nominal_association(
                                           get_contingency_table(coll))]
    /\ pc' = "done"
    /\ prev' = NoExp
    /\ UNCHANGED <<db, rng>>

\* StatsBuilder.calculate_cdf_pct(n_obs, days)
CalculateCdfPct(n_obs, days) ==
    /\ pc = "idle"
    /\ LET result == calculate_cdf_pct(
                         GetCollection(db, DefaultRepository.collection), n_obs, days)
       IN op' = [NoOp EXCEPT !.kind = "cdf_pct", !.pre = db, !.n_obs = n_obs,
                             !.days = days, !.status = result.status,
                             !.error = result.error, !.ret = result.pct]
    /\ pc' = "done"
    /\ prev' = NoExp
    /\ UNCHANGED <<db, rng>>

\* ------------------------------------------------------------- failures, return
\* a repository call raises: the exception leaves the operation at once
Raise == [op EXCEPT !.status = "failed", !.error = "StorageUnavailable"]

\* as StorageFailure, with the failed update_one tried again, with success,
\* before the exception leaves the operation
StorageFailure_retries ==
    /\ \/ pc = "run_loop" /\ LoopContinues(op.current_date, op.end_date) /\ db' = db
       \/ pc = "run_stats" /\ db' = db
       \/ /\ pc = "assign_update" /\ op.users # <<>>
          /\ LET user == Head(op.users)
             IN db' = PutCollection(db, op.exp.collection,
                         update_one(GetCollection(db, op.exp.collection),
                                    user._id, user.inExperiment, user.group).coll)
    /\ op' = Raise
    /\ pc' = "done"
    /\ UNCHANGED <<rng, prev>>

\* find, count_documents or update_one raises
StorageFailure ==
    /\ \/ pc = "run_loop" /\ LoopContinues(op.current_date, op.end_date)
       \/ pc = "assign_update" /\ op.users # <<>>
       \/ pc = "run_stats"
    /\ op' = Raise
    /\ pc' = "done"
    /\ UNCHANGED <<db, rng, prev>>

\* update_many raises after it has updated some of the matching documents
ResetFailure ==
    /\ pc = "reset_loop"
    /\ \E name \in op.remaining :
          LET c == [database |-> op.db_name, name |-> name]
              coll == GetCollection(db, c)
          IN \E ids \in SUBSET MatchingIds(coll, [inExperiment |-> TRUE]) :
                db' = PutCollection(db, c, unset_documents(coll, ids))
    /\ op' = Raise
    /\ pc' = "done"
    /\ UNCHANGED <<rng, prev>>

\* the caller has the outcome; the operation's locals are gone
Return ==
    /\ pc = "done"
    /\ pc' = "idle"
    /\ op' = NoOp
    /\ prev' = IF op.kind = "reset" /\ op.status = "ok" THEN op.exp ELSE NoExp
    /\ UNCHANGED <<db, rng>>

Next ==
    \/ \E exp \in Experiments, days \in DaysArgs, assignment \in BOOLEAN, seed \in Seeds :
          BeginRun(exp, days, assignment, seed) /\ UNCHANGED fixture
    \/ RunAssignDay /\ UNCHANGED fixture
    \/ RunCountDay /\ UNCHANGED fixture
    \/ RunLoopExit /\ UNCHANGED fixture
    \/ RunStats /\ UNCHANGED fixture
    \/ \E exp \in Experiments : BeginStats(exp) /\ UNCHANGED fixture
    \/ \E exp \in Experiments, d \in DateStrings : AssignForDay(exp, d) /\ UNCHANGED fixture
    \/ AssignUpdate /\ UNCHANGED fixture
    \/ AssignReturn /\ UNCHANGED fixture
    \/ \E exp \in Experiments, d \in DateStrings : CountForDay(exp, d) /\ UNCHANGED fixture
    \/ \E exp \in Experiments : BeginReset(exp) /\ UNCHANGED fixture
    \/ \E client \in {MongoClient} \cup AllCollections(db), db_name \in DOMAIN db :
          BeginResetAll(client, db_name) /\ UNCHANGED fixture
    \/ ResetCollection /\ UNCHANGED fixture
    \/ ResetReturn /\ UNCHANGED fixture
    \/ \E days \in CdfDaysArgs : StatsBuilderRunExperiment(days) /\ UNCHANGED fixture
    \/ StatsBuilderRunAfterReset /\ UNCHANGED fixture
    \/ GetContingencyTable /\ UNCHANGED fixture
    \/ RunChiSquare /\ UNCHANGED fixture
    \/ \E n_obs \in NObsArgs, days \in CdfDaysArgs :
          CalculateCdfPct(n_obs, days) /\ UNCHANGED fixture
    \/ StorageFailure /\ UNCHANGED fixture
    \/ ResetFailure /\ UNCHANGED fixture
    \/ Return /\ UNCHANGED fixture

Spec == Init /\ [][Next]_vars

\* ------------------------------------------------------------- replay
\* A second specification: one assigning run, then the same run_experiment call
\* again on a store holding the documents the first one started from.  Between
\* the two, _assign_groups_for_date may draw from the process-global generator.

\* the first run_experiment(days, assignment=True, seed) call
FirstRun(exp, days, seed) ==
    /\ fixture.phase = "none"
    /\ BeginRun(exp, days, TRUE, seed)
    /\ fixture' = [NoFixture EXCEPT !.phase = "first", !.pre = db, !.exp = exp,
                                    !.days = days, !.seed = seed]

\* an operation returns; the store the first run leaves is kept
ReturnRecorded ==
    /\ Return
    /\ fixture' = IF fixture.phase = "first" /\ op.status = "ok"
                  THEN [fixture EXCEPT !.phase = "recorded", !.post = db]
                  ELSE IF fixture.phase = "replay"
                  THEN [fixture EXCEPT !.phase = "replayed"]
                  ELSE fixture

\* the store again holds the documents the first run started from
RestoreStore ==
    /\ pc = "idle"
    /\ fixture.phase = "recorded"
    /\ db' = fixture.pre
    /\ fixture' = [fixture EXCEPT !.phase = "restored"]
    /\ UNCHANGED <<rng, pc, op, prev>>

\* the second run_experiment call, with the arguments of the first
ReplayRun ==
    /\ fixture.phase = "restored"
    /\ BeginRun(fixture.exp, fixture.days, TRUE, fixture.seed)
    /\ fixture' = [fixture EXCEPT !.phase = "replay"]

NextReplay ==
    \/ \E exp \in Experiments, days \in DaysArgs, seed \in Seeds : FirstRun(exp, days, seed)
    \/ RunAssignDay /\ UNCHANGED fixture
    \/ RunLoopExit /\ UNCHANGED fixture
    \/ RunStats /\ UNCHANGED fixture
    \/ \E exp \in Experiments, d \in DateStrings :
          fixture.phase = "recorded" /\ AssignForDay(exp, d) /\ UNCHANGED fixture
    \/ AssignUpdate /\ UNCHANGED fixture
    \/ AssignReturn /\ UNCHANGED fixture
    \/ ReturnRecorded
    \/ RestoreStore
    \/ ReplayRun

SpecReplay == Init /\ [][NextReplay]_vars

\* ------------------------------------------------------------- two ranges
\* Two run_experiment calls with the same seed and different numbers of days,
\* both started from the same store. The store has room for two cohorts of two:
\* a shuffle of fewer than two users draws nothing from the generator.
RangeApplicantIds == 1..(NumApplicants + 2)

\* documents no experiment has touched, ids in creation order
RangeApplicantDocs ==
    {docs \in [RangeApplicantIds -> [createdAt : CreatedDays,
                                     admissionsQuiz : {"incomplete", "complete"},
                                     inExperiment : {FALSE},
                                     group : {Unset}]] :
        \A i, j \in RangeApplicantIds : i <= j => docs[i].createdAt <= docs[j].createdAt}

InitRanges ==
    /\ \E a \in RangeApplicantDocs :
          db = ("online_course" :> ("applicants" :> a)) @@ ("wqu-abtest" :> EmptyDict)
    /\ rng \in RngStates
    /\ pc = "idle"
    /\ op = NoOp
    /\ prev = NoExp
    /\ fixture = NoFixture

\* the second run_experiment call: the seed of the first, any number of days
RangeRun(days) ==
    /\ fixture.phase = "restored"
    /\ BeginRun(fixture.exp, days, TRUE, fixture.seed)
    /\ fixture' = [fixture EXCEPT !.phase = "replay"]

NextRanges ==
    \/ \E exp \in Experiments, days \in DaysArgs, seed \in Seeds : FirstRun(exp, days, seed)
    \/ RunAssignDay /\ UNCHANGED fixture
    \/ RunLoopExit /\ UNCHANGED fixture
    \/ RunStats /\ UNCHANGED fixture
    \/ AssignUpdate /\ UNCHANGED fixture
    \/ AssignReturn /\ UNCHANGED fixture
    \/ ReturnRecorded
    \/ RestoreStore
    \/ \E days \in DaysArgs : RangeRun(days)

SpecRanges == InitRanges /\ [][NextRanges]_vars

\* ------------------------------------------------------------- properties
\* the collection an operation's assignment passes read and write
Target(store) == GetCollection(store, op.exp.collection)

\* the daily cohort: the documents created on `day` whose quiz is incomplete
Cohort(coll, day) ==
    {i \in DOMAIN coll : coll[i].createdAt = day /\ coll[i].admissionsQuiz = "incomplete"}

InGroup(coll, ids, g) == {i \in ids : coll[i].inExperiment /\ coll[i].group = g}

InExperimentIds(coll) == {i \in DOMAIN coll : coll[i].inExperiment}

\* the update loop of an assignment pass has run to its end
PassComplete == pc = "assign_update" /\ op.users = <<>>

\* C1: for a daily cohort of any size n >= 0, the finished assignment pass has
\* labelled floor(n/2) documents control and ceil(n/2) treatment, reports these
\* sizes and n matched documents, and for n = 0 reports nothing matched or modified.
C1_AssignSplitsCohort ==
    PassComplete =>
        LET cohort == Cohort(Target(db), strptime(op.date_string))
            n == Cardinality(cohort)
        IN /\ op.control_size = n \div 2
           /\ op.treatment_size = n - (n \div 2)
           /\ op.treatment_size - op.control_size \in {0, 1}
           /\ op.treatment_size + op.control_size = n
           /\ Cardinality(InGroup(Target(db), cohort, Control)) = n \div 2
           /\ Cardinality(InGroup(Target(db), cohort, Treatment)) = n - (n \div 2)
           /\ AssignResult(op).n = n
           /\ n = 0 => AssignResult(op).n = 0 /\ AssignResult(op).n_modified = 0

\* a finished pass over a cohort of odd size
C1_Witness ==
    /\ PassComplete
    /\ Cardinality(Cohort(Target(db), strptime(op.date_string))) % 2 = 1
    /\ op.modified_count > 0

\* C2: a run_experiment(days, assignment=True, seed) call repeated with the same
\* arguments on a store holding the same documents leaves every document with
\* the same experiment fields as the first call did.
C2_SameSeedSameGroups ==
    (pc = "done" /\ fixture.phase = "replay" /\ op.status = "ok") => db = fixture.post

\* a replayed run that shuffled a cohort of two and assigned it
C2_Witness ==
    /\ pc = "done"
    /\ fixture.phase = "replay"
    /\ op.status = "ok"
    /\ \E k \in 1..Len(op.ret.daily_results) : op.ret.daily_results[k][2].control_size >= 1
    /\ db # fixture.pre

\* C3 (as claimed): a document changes group only from no group to control or
\* treatment, by an assignment pass, or from a group to no group, by a reset;
\* never from control to treatment or back.
C3_AssignedOnceBetweenResets ==
    [][\A c \in AllCollections(db) : \A i \in DOMAIN GetCollection(db, c) :
          LET before == GetCollection(db, c)[i].group
              after == GetCollection(db', c)[i].group
          IN before # after =>
                \/ before = Unset /\ after \in Groups /\ pc = "assign_update"
                \/ before \in Groups /\ after = Unset /\ pc = "reset_loop"]_vars

\* C4: in every state, between the updates of a pass and after a failure too, a
\* document has a group exactly when it is in the experiment, and the group is
\* one of the two labels.
C4_GroupIffInExperiment ==
    \A c \in AllCollections(db) : \A i \in DOMAIN GetCollection(db, c) :
        LET doc == GetCollection(db, c)[i]
        IN /\ doc.inExperiment <=> doc.group # Unset
           /\ doc.group # Unset => doc.group \in Groups

\* an operation cut short by a storage failure, some documents updated, others not
C4_Witness ==
    /\ pc = "done"
    /\ op.error = "StorageUnavailable"
    /\ \/ op.kind = "run" /\ op.matched_count > 0 /\ op.users # <<>>
       \/ op.kind = "reset" /\ db # op.pre /\ InExperimentIds(Target(db)) # {}

\* C5: reset_experiment() called again right after reset_experiment() reports
\* matched = 0 and modified = 0 and leaves the store as it was.
C5_ResetIdempotent ==
    (pc = "done" /\ op.kind = "reset" /\ op.status = "ok" /\ op.again) =>
        /\ op.ret = [matched |-> 0, modified |-> 0]
        /\ db = op.pre

\* the second of two reset_experiment() calls in a row has returned
C5_Witness ==
    /\ pc = "done"
    /\ op.kind = "reset"
    /\ op.status = "ok"
    /\ op.again
    /\ op.exp = DefaultExperiment
    /\ op.results # EmptyDict

\* C6 (as claimed): after reset_experiment() returns, no document of the
\* Experiment's target collection is in the experiment, and matched is the
\* number of its documents that were.
C6_ResetClearsTarget ==
    (pc = "done" /\ op.kind = "reset" /\ op.status = "ok") =>
        /\ InExperimentIds(Target(db)) = {}
        /\ op.ret.matched = Cardinality(InExperimentIds(Target(op.pre)))

\* C7: no operation creates or deletes a document or changes its creation
\* timestamp or quiz status.
C7_OnlyExperimentFieldsChange ==
    op.kind # "none" =>
        /\ DOMAIN db = DOMAIN op.pre
        /\ \A c \in AllCollections(db) :
              /\ DOMAIN GetCollection(db, c) = DOMAIN GetCollection(op.pre, c)
              /\ \A i \in DOMAIN GetCollection(db, c) :
                    /\ GetCollection(db, c)[i].createdAt = GetCollection(op.pre, c)[i].createdAt
                    /\ GetCollection(db, c)[i].admissionsQuiz
                          = GetCollection(op.pre, c)[i].admissionsQuiz

\* an assignment pass or a reset has changed experiment fields
C7_Witness ==
    /\ pc = "done"
    /\ op.status = "ok"
    /\ db # op.pre
    /\ op.kind \in {"run", "reset"}

\* C8: run_experiment(days) with days >= 1 processes the days today - days, ...,
\* today - 1, each once and in this order, never today, and daily_results holds
\* one entry for each of them.
C8_DaysProcessedInOrder ==
    (pc = "done" /\ op.kind = "run" /\ op.status = "ok" /\ op.days >= 1) =>
        LET expected == [k \in 1..op.days |-> strftime(Today - op.days + k - 1)]
        IN /\ op.processed = expected
           /\ DictKeys(op.ret.daily_results) = expected
           /\ \A k \in 1..Len(op.processed) : strptime(op.processed[k]) # Today

\* a run over two days has returned
C8_Witness ==
    /\ pc = "done"
    /\ op.kind = "run"
    /\ op.status = "ok"
    /\ op.days >= 2
    /\ Len(op.ret.daily_results) >= 2

\* C9 (as claimed): run_experiment(days) with days <= 0 ends with the error
\* InvalidDateRange and changes no document.
C9_InvalidDateRange ==
    (pc = "done" /\ op.kind = "run" /\ op.days <= 0) =>
        /\ op.error = "InvalidDateRange"
        /\ db = op.pre

\* C10: counting changes no document, alone or in run_experiment(assignment=False),
\* and a day's count is the size of the cohort an assignment pass would select.
C10_CountReadsOnly ==
    /\ (op.kind = "count_for_day" \/ (op.kind = "run" /\ ~op.assignment)) => db = op.pre
    /\ (pc = "done" /\ op.kind = "count_for_day") =>
          op.ret.count = Len(AssignPrepare(Target(db), op.date_string, rng).all_users)
    /\ (op.kind = "run" /\ ~op.assignment) =>
          \A k \in 1..Len(op.daily_results) :
              op.daily_results[k][2].count
                 = Len(AssignPrepare(Target(db), op.daily_results[k][1], rng).all_users)

\* a counting run over a store with documents in the experiment found a cohort
C10_Witness ==
    /\ pc = "done"
    /\ op.kind = "run"
    /\ ~op.assignment
    /\ op.status = "ok"
    /\ InExperimentIds(Target(db)) # {}
    /\ \E k \in 1..Len(op.ret.daily_results) : op.ret.daily_results[k][2].count >= 1

\* C11: when _assign_groups_for_date(date) called on its own has completed, every
\* document created on that day whose quiz is incomplete is in the experiment with
\* one of the two groups, and every other document of every collection is as it
\* was before the call
C11_AssignTouchesOnlyCohort ==
    (pc = "done" /\ op.kind = "assign_for_day" /\ op.status = "ok") =>
        LET day == strptime(op.date_string)
            selected == Cohort(Target(op.pre), day)
        IN /\ \A i \in selected :
                 /\ Target(db)[i].inExperiment
                 /\ Target(db)[i].group \in Groups
           /\ \A i \in DOMAIN Target(db) \ selected : Target(db)[i] = Target(op.pre)[i]
           /\ DOMAIN Target(db) = DOMAIN Target(op.pre)
           /\ \A c \in AllCollections(op.pre) \ {op.exp.collection} :
                 GetCollection(db, c) = GetCollection(op.pre, c)

\* a completed pass that assigned a document while another document of the same
\* day, complete and clean, stayed outside
C11_Witness ==
    /\ pc = "done" /\ op.kind = "assign_for_day" /\ op.status = "ok"
    /\ Cohort(Target(op.pre), strptime(op.date_string)) # {}
    /\ \E i \in DOMAIN Target(db) :
          /\ Target(db)[i].createdAt = strptime(op.date_string)
          /\ Target(db)[i].admissionsQuiz = "complete"
          /\ ~Target(db)[i].inExperiment

\* the statistics an operation returned
ReturnedStats == IF op.kind = "run" THEN op.ret.statistics ELSE op.ret

StatsReturned == pc = "done" /\ op.kind \in {"run", "stats"} /\ op.status = "ok"

\* C12: the statistics never fail on an empty group: unless the storage fails,
\* _calculate_experiment_stats returns, and a group whose total is 0 has the
\* completion rate 0, in every store, the one right after a reset included
C12_EmptyGroupRateZero ==
    /\ (pc = "done" /\ op.kind \in {"run", "stats"} /\ op.error # "StorageUnavailable")
          => op.status = "ok"
    /\ StatsReturned =>
          \A g \in {"control_group", "treatment_group"} :
             /\ ReturnedStats[g].completion_rate[2] # 0
             /\ ReturnedStats[g].total = 0 => ReturnedStats[g].completion_rate = <<0, 1>>

\* the statistics right after a reset that emptied both groups
C12_Witness ==
    /\ StatsReturned /\ op.kind = "stats" /\ op.again
    /\ ReturnedStats.control_group.total = 0
    /\ ReturnedStats.treatment_group.total = 0
    /\ \E i \in DOMAIN Target(db) : Target(db)[i].admissionsQuiz = "complete"

\* the documents of the repository's collection in a group, and those of a status
Members(coll, g) == {i \in DOMAIN coll : coll[i].inExperiment /\ coll[i].group = g}
WithStatus(coll, ids, status) == {i \in ids : coll[i].admissionsQuiz = status}

\* C13: the contingency table built from the current documents is a table over
\* {control, treatment} x {complete, incomplete}; each entry is the number of
\* the group's documents with that status, so a row sums to the group's size
C13_TablePartitionsGroups ==
    (pc = "done" /\ op.kind = "contingency_table" /\ op.status = "ok") =>
        LET coll == GetCollection(db, DefaultRepository.collection)
            table == op.ret
        IN /\ table.index \subseteq Groups
           /\ table.columns \subseteq {"complete", "incomplete"}
           /\ \A g \in table.index :
                 /\ \A status \in table.columns :
                       table.values[<<g, status>>]
                          = Cardinality(WithStatus(coll, Members(coll, g), status))
                 /\ Cardinality(Members(coll, g))
                       = table.values[<<g, "complete">>] + table.values[<<g, "incomplete">>]

\* the table of the documents as they are has a row or a column of zeros: a
\* group without members, or a status no member of either group has
Degenerate(coll) ==
    \/ \E g \in Groups : Members(coll, g) = {}
    \/ \E status \in {"complete", "incomplete"} :
          \A g \in Groups : WithStatus(coll, Members(coll, g), status) = {}

\* C14: when the contingency table has a row or a column of zeros, the test ends
\* with a failure that reports it and returns no test result
C14_DegenerateTableReported ==
    (pc = "done" /\ op.kind = "chi_square"
        /\ Degenerate(GetCollection(db, DefaultRepository.collection)))
      => op.status = "failed"

\* the history calculate_cdf_pct reads
History == get_no_quiz_per_day(GetCollection(db, DefaultRepository.collection))

\* fewer than two days of history, or the same count on every day (std = 0)
InsufficientHistory ==
    \/ Cardinality(DOMAIN History) < 2
    \/ \A d1, d2 \in DOMAIN History : History[d1] = History[d2]

\* C15: with fewer than two days of history, or a standard deviation of 0,
\* calculate_cdf_pct ends with a failure; it never returns NaN
C15_InsufficientHistoryReported ==
    (pc = "done" /\ op.kind = "cdf_pct") =>
        /\ InsufficientHistory => op.status = "failed"
        /\ op.status = "ok" => ~op.ret.nan

\* a >= b for two percentages computed from the same history and days: the scale
\* is the same and positive, Phi is increasing, so the order is that of the
\* numerators of z reversed; no order holds with NaN
PctGeq(a, b) == ~a.nan /\ ~b.nan /\ a.z_numerator <= b.z_numerator

\* a percentage between 0 and 100: 100 * (1 - Phi(z)) for a real z
InPercentRange(a) == ~a.nan

\* C17: for a fixed history and fixed days, the percentage calculate_cdf_pct
\* returns lies within 0..100 and does not grow with n_obs
C17_ProbabilityNonIncreasing ==
    (pc = "done" /\ op.kind = "cdf_pct" /\ op.status = "ok") =>
        /\ InPercentRange(op.ret)
        /\ \A m \in 0..op.n_obs :
              PctGeq(calculate_cdf_pct(GetCollection(op.pre, DefaultRepository.collection),
                                       m, op.days).pct,
                     op.ret)

ResetAllReturned == pc = "done" /\ op.kind = "reset_all" /\ op.status = "ok"

\* C18: reset_database on a database returns one {matched, modified} entry for
\* each of its collections, on a Collection one entry for that collection and it
\* writes to no other; matched is the number of documents that were in the
\* experiment before, and afterwards no document of an addressed collection is
\* in the experiment
C18_ResetAllEntries ==
    ResetAllReturned =>
        LET addressed == IF IsCollection(op.client) THEN {op.client.name}
                         ELSE DOMAIN op.pre[op.db_name]
        IN /\ DOMAIN op.ret = addressed
           /\ \A name \in addressed :
                 LET c == [database |-> op.db_name, name |-> name]
                 IN /\ DOMAIN op.ret[name] = {"matched", "modified"}
                    /\ op.ret[name].matched
                          = Cardinality(InExperimentIds(GetCollection(op.pre, c)))
                    /\ InExperimentIds(GetCollection(db, c)) = {}
           /\ IsCollection(op.client) =>
                 \A c \in AllCollections(op.pre) \ {op.client} :
                    GetCollection(db, c) = GetCollection(op.pre, c)

\* a reset of one collection that cleared a document while a document of
\* another collection of the same database stays in the experiment
C18_Witness ==
    /\ ResetAllReturned /\ IsCollection(op.client)
    /\ op.ret[op.client.name].matched > 0
    /\ \E c \in AllCollections(db) \ {op.client} :
          c.database = op.client.database /\ InExperimentIds(GetCollection(db, c)) # {}

StorageFailed == pc = "done" /\ op.error = "StorageUnavailable"

\* the experiment fields of a document
ExperimentFields(doc) == <<doc.inExperiment, doc.group>>

\* C19: a storage failure in a repository call of run_experiment,
\* _assign_groups_for_date, reset or the statistics ends the operation as failed,
\* without a result. The documents the update loop had updated carry their new
\* fields, the ones it had not reached carry the fields they had before; a
\* failed reset leaves each document either as before or cleared, and the
\* collections it had not reached as before; failed statistics leave the store
\* as it was
C19_FailurePropagates ==
    StorageFailed =>
        /\ op.status = "failed" /\ op.ret = EmptyDict
        /\ op.kind \in {"run", "assign_for_day"} =>
              LET done == Len(op.all_users) - Len(op.users)
              IN /\ op.matched_count = done
                 /\ \A k \in 1..Len(op.all_users) :
                       LET user == op.all_users[k]
                       IN ExperimentFields(Target(db)[user._id])
                            = IF k <= done THEN <<TRUE, user.group>>
                              ELSE ExperimentFields(Target(op.pre)[user._id])
                 /\ op.kind = "assign_for_day" =>
                       \A i \in DOMAIN Target(db) :
                          (\A k \in 1..Len(op.all_users) : op.all_users[k]._id # i)
                             => Target(db)[i] = Target(op.pre)[i]
        /\ op.kind \in {"reset", "reset_all"} =>
              /\ \A c \in AllCollections(op.pre) :
                    \A i \in DOMAIN GetCollection(op.pre, c) :
                       \/ GetCollection(db, c)[i] = GetCollection(op.pre, c)[i]
                       \/ GetCollection(db, c)[i] = UnsetFields(GetCollection(op.pre, c)[i])
              /\ Cardinality({name \in op.remaining :
                     GetCollection(db, [database |-> op.db_name, name |-> name])
                        # GetCollection(op.pre, [database |-> op.db_name, name |-> name])})
                    <= 1
        /\ op.kind = "stats" => db = op.pre

\* the update loop failed after it had updated one document of two
C19_Witness ==
    /\ StorageFailed /\ op.kind \in {"run", "assign_for_day"}
    /\ op.users # <<>>
    /\ Len(op.users) < Len(op.all_users)
    /\ ExperimentFields(Target(db)[op.all_users[1]._id])
          # ExperimentFields(Target(op.pre)[op.all_users[1]._id])

\* the fractions a and b are the same number (denominators are not 0)
SameFraction(a, b) == a[1] * b[2] = b[1] * a[2]

\* completed / total of a group as the documents say, 0 for an empty group
GroupRate(coll, g) ==
    IF Members(coll, g) = {} THEN <<0, 1>>
    ELSE <<Cardinality(WithStatus(coll, Members(coll, g), "complete")),
           Cardinality(Members(coll, g))>>

\* C20: the statistics reflect the documents as they are: each group's total is
\* the number of documents in that group, completed the number of those whose
\* quiz is complete (never more than total), difference is the treatment rate
\* minus the control rate, and the two totals add up to the number of documents
\* in the experiment
C20_StatsReflectStore ==
    StatsReturned =>
        LET coll == Target(db)
            stats == ReturnedStats
            control_rate == GroupRate(coll, Control)
            treatment_rate == GroupRate(coll, Treatment)
        IN /\ stats.control_group.total = Cardinality(Members(coll, Control))
           /\ stats.treatment_group.total = Cardinality(Members(coll, Treatment))
           /\ stats.control_group.completed
                 = Cardinality(WithStatus(coll, Members(coll, Control), "complete"))
           /\ stats.treatment_group.completed
                 = Cardinality(WithStatus(coll, Members(coll, Treatment), "complete"))
           /\ stats.control_group.completed <= stats.control_group.total
           /\ stats.treatment_group.completed <= stats.treatment_group.total
           /\ SameFraction(stats.control_group.completion_rate, control_rate)
           /\ SameFraction(stats.treatment_group.completion_rate, treatment_rate)
           /\ stats.difference[2] # 0
           /\ SameFraction(stats.difference,
                           <<treatment_rate[1] * control_rate[2]
                                - control_rate[1] * treatment_rate[2],
                             treatment_rate[2] * control_rate[2]>>)
           /\ stats.control_group.total + stats.treatment_group.total
                 = Cardinality(InExperimentIds(coll))

\* statistics over two groups with members, one complete and one not, so that
\* the difference is not 0
C20_Witness ==
    /\ StatsReturned
    /\ ReturnedStats.control_group.total > 0
    /\ ReturnedStats.treatment_group.total > 0
    /\ ReturnedStats.difference[1] # 0

\* an assigning run has returned, and no document of its collection was in the
\* experiment when it started
CleanRunReturned ==
    /\ pc = "done" /\ op.kind = "run" /\ op.status = "ok" /\ op.assignment
    /\ InExperimentIds(Target(op.pre)) = {}

\* the documents with an incomplete quiz created in [today - days, today)
InRange(coll, days) ==
    {i \in DOMAIN coll : /\ coll[i].admissionsQuiz = "incomplete"
                         /\ Today - days <= coll[i].createdAt
                         /\ coll[i].createdAt < Today}

\* the sum of one entry of the per-day results
RECURSIVE SumField(_, _)
SumField(d, field) ==
    IF d = <<>> THEN 0 ELSE Head(d)[2][field] + SumField(Tail(d), field)

\* C21: for an assigning run started with no document in the experiment,
\* total_assigned is the number of incomplete documents created in
\* [today - days, today), the sum of control_size + treatment_size over the days,
\* and the sum of the two group totals of the statistics; each of these
\* documents was updated once (the sum of the modified counts is the same
\* number, and they are the documents now in the experiment)
C21_TotalAssigned ==
    CleanRunReturned =>
        LET n == Cardinality(InRange(Target(op.pre), op.days))
            daily == op.ret.daily_results
        IN /\ op.ret.total_assigned = n
           /\ SumField(daily, "control_size") + SumField(daily, "treatment_size") = n
           /\ op.ret.statistics.control_group.total
                 + op.ret.statistics.treatment_group.total = n
           /\ SumField(daily, "n") = n
           /\ SumField(daily, "n_modified") = n
           /\ InExperimentIds(Target(db)) = InRange(Target(op.pre), op.days)

\* a run over two days, each with a cohort of one
C21_Witness ==
    /\ CleanRunReturned
    /\ Len(op.ret.daily_results) = 2
    /\ \A k \in 1..2 : op.ret.daily_results[k][2].n = 1
    /\ op.ret.total_assigned = 2

\* C22: reset_experiment() changes the experiment fields of documents of the
\* Experiment's own collection only: the documents of every other collection of
\* the same database keep their inExperiment and group
C22_ResetTouchesTargetOnly ==
    (pc = "done" /\ op.kind = "reset" /\ op.status = "ok") =>
        \A c \in AllCollections(op.pre) \ {op.exp.collection} :
           \A i \in DOMAIN GetCollection(op.pre, c) :
              ExperimentFields(GetCollection(db, c)[i])
                 = ExperimentFields(GetCollection(op.pre, c)[i])

\* C23: the group of a document depends on the seed and on the cohort of its own
\* day only: two runs with the same seed from the same store, over days1 and
\* days2 days, give the same group to every document of a day both ranges hold
C23_GroupKeyedByDay ==
    (pc = "done" /\ fixture.phase = "replay" /\ op.status = "ok") =>
        LET first == GetCollection(fixture.post, fixture.exp.collection)
            second == Target(db)
        IN \A i \in InRange(second, fixture.days) \cap InRange(second, op.days) :
              second[i].group = first[i].group

\* C24: when StatsBuilder.run_experiment(days) has completed, the documents of
\* the repository's collection that are in the experiment are exactly the ones
\* with an incomplete quiz created in [today - days, today)
C24_OnlyRangeInExperiment ==
    (pc = "done" /\ op.kind = "run" /\ op.status = "ok"
        /\ op.caller = "StatsBuilder.run_experiment") =>
        LET coll == GetCollection(db, DefaultRepository.collection)
        IN InExperimentIds(coll) = InRange(coll, op.days)

\* the days of the run whose cohort had an odd number of users
OddDays(daily) ==
    {k \in 1..Len(daily) : (daily[k][2].control_size + daily[k][2].treatment_size) % 2 = 1}

\* C25: after an assigning run of D days started with no document in the
\* experiment, 0 <= total(treatment) - total(control) <= D, and the excess is
\* the number of processed days whose cohort size is odd
C25_TreatmentExcess ==
    CleanRunReturned =>
        LET excess == op.ret.statistics.treatment_group.total
                        - op.ret.statistics.control_group.total
        IN /\ 0 <= excess
           /\ excess <= op.days
           /\ excess = Cardinality(OddDays(op.ret.daily_results))

\* the same bounds for the runs with days >= 0, the ones that can process days
TreatmentExcessOfProcessedDays ==
    (CleanRunReturned /\ op.days >= 0) =>
        LET excess == op.ret.statistics.treatment_group.total
                        - op.ret.statistics.control_group.total
        IN /\ 0 <= excess
           /\ excess <= op.days
           /\ excess = Cardinality(OddDays(op.ret.daily_results))

\* C26: right after an assigning run started with no document in the experiment,
\* every document in the experiment has an incomplete quiz: the statistics
\* report completed = 0 and completion_rate = 0 for both groups and
\* difference = 0, and the contingency table built next counts no document
\* under 'complete'
C26_FreshRunAllIncomplete ==
    CleanRunReturned =>
        LET coll == Target(db)
            stats == op.ret.statistics
        IN /\ \A i \in InExperimentIds(coll) : coll[i].admissionsQuiz = "incomplete"
           /\ \A g \in {"control_group", "treatment_group"} :
                 /\ stats[g].completed = 0
                 /\ stats[g].completion_rate[1] = 0
                 /\ stats[g].completion_rate[2] # 0
           /\ stats.difference[1] = 0
           /\ stats.difference[2] # 0
           /\ Frame(coll) # <<>> => "complete" \notin get_contingency_table(coll).columns

\* a run that filled both groups, so that a contingency table can be built
C26_Witness ==
    /\ CleanRunReturned
    /\ op.ret.statistics.control_group.total > 0
    /\ op.ret.statistics.treatment_group.total > 0
    /\ Frame(Target(db)) # <<>>

\* C27: a reset reports modified = matched for every collection it addressed,
\* and reset_experiment() returns {matched: 0, modified: 0} when the database it
\* resets has no collection with the name of its target
C27_ResetCounts ==
    (pc = "done" /\ op.kind \in {"reset", "reset_all"} /\ op.status = "ok") =>
        /\ \A name \in DOMAIN op.results :
              op.results[name].modified = op.results[name].matched
        /\ (op.kind = "reset" /\ op.exp.collection_name \notin DOMAIN op.pre[op.exp.db_name])
              => op.ret = [matched |-> 0, modified |-> 0]
        /\ op.kind = "reset" => op.ret.modified = op.ret.matched

\* reset_experiment() of the Experiment StatsBuilder builds: its database has no
\* collection of that name, while its collection holds a document in the
\* experiment
C27_Witness ==
    /\ pc = "done" /\ op.kind = "reset" /\ op.status = "ok"
    /\ op.exp.collection_name \notin DOMAIN op.pre[op.exp.db_name]
    /\ InExperimentIds(Target(op.pre)) # {}
    /\ op.ret = [matched |-> 0, modified |-> 0]

====
